---- MODULE Spec2Model ----
(***************************************************************************)
(* Model of the JSONL multi-file merger (JSONLMerger): message             *)
(* fingerprinting, the message graph built by addFile, findTrueRoots and   *)
(* the depth-first linearisation of generateChatHistory.                   *)
(*                                                                         *)
(* JavaScript Set and Map iterate in insertion order, so every Set / Map   *)
(* of the code whose iteration order is observable is a sequence without   *)
(* duplicates here.  Message texts are sequences of UTF-16 code units;     *)
(* names, branch ids and uuids are strings.                                *)
(***************************************************************************)
EXTENDS Integers, Sequences, FiniteSets, TLC

VARIABLES
    nodeMap,            \* JSONLMerger.nodeMap: the nodes, in Map insertion order
    rootFingerprints,   \* JSONLMerger.rootFingerprints, in Set insertion order
    fileCount,          \* number of addFile calls made on the instance
    entryCount,         \* number of entries handed to addFile so far
    trueRoots,          \* the roots found by the latest generateChatHistory
    chatHistory,        \* the array returned by the latest generateChatHistory
    origin,             \* per emitted message: its node and the node it was reached from
    returned,           \* TRUE when chatHistory is the result for the current graph
    calls,              \* generateChatHistory calls since the latest addFile
    input,              \* the files of a scripted run (<<>> when the run is unscripted)
    jsonData,           \* the conversation of a multi-version export (<<>> when none)
    processedData,      \* the result of the adapter, as handed to detectOtherBranches
    detected,           \* TRUE when detectOtherBranches has returned processedData
    stack,              \* the pending traverse calls of a traversal followed call by call
    visitOrder          \* the fingerprints that traversal has added to visited, in order

vars == <<nodeMap, rootFingerprints, fileCount, entryCount, trueRoots, chatHistory,
          origin, returned, calls, input, jsonData, processedData, detected, stack,
          visitOrder>>

-----------------------------------------------------------------------------
(* Bounds of the model *)

MaxFiles == 2

MaxEntries == 5

MaxCalls == 2

MaxSystemLen == 3

MaxDepth == 6

-----------------------------------------------------------------------------
(* Generic helpers *)

Range(s) == {s[i] : i \in 1..Len(s)}

\* Set.prototype.add on an insertion-ordered Set
SetAdd(s, x) == IF x \in Range(s) THEN s ELSE Append(s, x)

\* the JavaScript values null / undefined where the code produces them
Null == "null"

Undefined == "undefined"

-----------------------------------------------------------------------------
(* simpleHash and generateMessageFingerprint *)

Half == 65536

\* 32-bit two's complement value of 31 * hash + char, computed on 16-bit halves
HashStep(hash, char) ==
    LET lo  == hash % Half
        hi  == ((hash - lo) \div Half) % Half
        lo2 == 31 * lo + char
        hi2 == (31 * hi + (lo2 \div Half)) % Half
        lo3 == lo2 % Half
    IN  IF hi2 >= 32768 THEN (hi2 - Half) * Half + lo3 ELSE hi2 * Half + lo3

Digit36 == <<"0","1","2","3","4","5","6","7","8","9","a","b","c","d","e","f","g",
             "h","i","j","k","l","m","n","o","p","q","r","s","t","u","v","w","x",
             "y","z">>

RECURSIVE NatToString36(_)
NatToString36(n) ==
    IF n < 36 THEN Digit36[n + 1]
    ELSE NatToString36(n \div 36) \o Digit36[(n % 36) + 1]

\* Number.prototype.toString(36) of a 32-bit integer
ToString36(n) ==
    IF n >= 0 THEN NatToString36(n)
    ELSE LET d == (36 - (n % 36)) % 36      \* last digit of |n|
             q == 0 - ((n + d) \div 36)     \* |n| div 36
         IN  "-" \o (IF q = 0 THEN "" ELSE NatToString36(q)) \o Digit36[d + 1]

RECURSIVE HashFrom(_, _, _)
HashFrom(hash, str, i) ==
    IF i > Len(str) THEN hash
    ELSE HashFrom(HashStep(hash, str[i]), str, i + 1)

simpleHash(str) == ToString36(HashFrom(0, str, 1))

RECURSIVE NatToString(_)
NatToString(n) ==
    IF n < 10 THEN Digit36[n + 1]
    ELSE NatToString(n \div 10) \o Digit36[(n % 10) + 1]

BoolToString(b) == IF b THEN "true" ELSE "false"

\* entry.mes || (entry.swipes?.[0] || "")
EntryContent(entry) ==
    IF entry.mes # <<>> THEN entry.mes
    ELSE IF Len(entry.swipes) > 0 THEN entry.swipes[1] ELSE <<>>

\* a fingerprint that also reads which swipe is selected
MutFingerprintWithSwipeId(entry) ==
    entry.name \o "|" \o BoolToString(entry.is_user) \o "|"
        \o simpleHash(EntryContent(entry) \o entry.swipe_id)

MutFingerprintWithDate(entry) ==
    entry.name \o "|" \o BoolToString(entry.is_user) \o "|"
        \o simpleHash(EntryContent(entry)) \o "|" \o entry.send_date

generateMessageFingerprint(entry) ==
    entry.name \o "|" \o BoolToString(entry.is_user) \o "|"
        \o simpleHash(EntryContent(entry))

-----------------------------------------------------------------------------
(* MessageNode and the node map *)

MessageNode(fingerprint, entry) ==
    [fingerprint |-> fingerprint, entry |-> entry, parents |-> <<>>,
     children |-> <<>>, fileIndices |-> {}, isRoot |-> FALSE]

\* Map.prototype.has / get on a node map
Keys(nm) == {nm[i].fingerprint : i \in 1..Len(nm)}

Has(nm, fp) == fp \in Keys(nm)

IndexOf(nm, fp) == CHOOSE i \in 1..Len(nm) : nm[i].fingerprint = fp

Get(nm, fp) == nm[IndexOf(nm, fp)]

EmptyBuilder == [nodeMap |-> <<>>, rootFingerprints |-> <<>>]

\* a node map where a fingerprint seen again gets a new node for the later entry
MutStoreLatestEntry(nm, fp, entry) ==
    IF Has(nm, fp)
    THEN [nm EXCEPT ![IndexOf(nm, fp)] = MessageNode(fp, entry)]
    ELSE Append(nm, MessageNode(fp, entry))

\* find or create the node of a fingerprint
FindOrCreate(nm, fp, entry) ==
    IF Has(nm, fp) THEN nm ELSE Append(nm, MessageNode(fp, entry))

\* file indices that keep only the file that created the node
MutRecordFirstFileOnly(fileIndices, fileIndex) ==
    IF fileIndices = {} THEN {fileIndex} ELSE fileIndices

\* node.fileIndices.add(fileIndex)
RecordFile(fileIndices, fileIndex) == fileIndices \cup {fileIndex}

\* a loop that records the parent of an entry but not the child of the parent
MutNoChildEdge(nm, parentFp, fp) == nm

\* parentNode.children.add(fp), when the parent node exists
AddChild(nm, parentFp, fp) ==
    IF Has(nm, parentFp)
    THEN [nm EXCEPT ![IndexOf(nm, parentFp)].children = SetAdd(@, fp)]
    ELSE nm

\* the body of the loop of addFile for an entry that is not skipped
AddRealEntry(b, entry, fileIndex) ==
    LET fp  == generateMessageFingerprint(entry)
        nm1 == FindOrCreate(b.nodeMap, fp, entry)
        i   == IndexOf(nm1, fp)
        nm2 == [nm1 EXCEPT ![i].fileIndices = RecordFile(@, fileIndex)]
    IN  IF b.prev # Null
        THEN LET nm3 == [nm2 EXCEPT ![i].parents = SetAdd(@, b.prev)]
                 nm4 == AddChild(nm3, b.prev, fp)
             IN  [nodeMap |-> nm4, rootFingerprints |-> b.rootFingerprints,
                  prev |-> fp]
        ELSE [nodeMap |-> [nm2 EXCEPT ![i].isRoot = TRUE],
              rootFingerprints |-> SetAdd(b.rootFingerprints, fp),
              prev |-> fp]

\* a loop where a system entry ends the chain: the next entry starts a new one
MutSystemBreaksChain(b, entry, fileIndex) ==
    IF entry.is_system THEN [b EXCEPT !.prev = Null]
    ELSE AddRealEntry(b, entry, fileIndex)

\* one iteration of the loop of addFile, b = [nodeMap, rootFingerprints, prev]
AddEntry(b, entry, fileIndex) ==
    IF entry.is_system THEN b
    ELSE AddRealEntry(b, entry, fileIndex)

RECURSIVE AddEntries(_, _, _, _)
AddEntries(b, messages, k, fileIndex) ==
    IF k > Len(messages) THEN b
    ELSE AddEntries(AddEntry(b, messages[k], fileIndex), messages, k + 1, fileIndex)

\* JSONLMerger.addFile on a builder [nodeMap, rootFingerprints]
addFile(builder, messages, fileIndex) ==
    LET b == AddEntries([nodeMap |-> builder.nodeMap,
                         rootFingerprints |-> builder.rootFingerprints,
                         prev |-> Null], messages, 1, fileIndex)
    IN  [nodeMap |-> b.nodeMap, rootFingerprints |-> b.rootFingerprints]

-----------------------------------------------------------------------------
(* findTrueRoots *)

\* the inner loop: scan node.parents from position j until a valid one is found
RECURSIVE HasValidParent(_, _, _)
HasValidParent(nm, parents, j) ==
    IF j > Len(parents) THEN FALSE
    ELSE IF Has(nm, parents[j]) THEN TRUE
    ELSE HasValidParent(nm, parents, j + 1)

RECURSIVE TrueRootsFrom(_, _, _)
TrueRootsFrom(nm, i, found) ==
    IF i > Len(nm) THEN found
    ELSE TrueRootsFrom(nm, i + 1,
            IF HasValidParent(nm, nm[i].parents, 1) THEN found
            ELSE SetAdd(found, nm[i].fingerprint))

MutFileRootsAsTrueRoots(nm) ==
    LET idx == {i \in 1..Len(nm) : nm[i].isRoot}
        RECURSIVE Collect(_, _)
        Collect(i, acc) == IF i > Len(nm) THEN acc
                           ELSE Collect(i + 1, IF i \in idx
                                               THEN Append(acc, nm[i].fingerprint)
                                               ELSE acc)
    IN  Collect(1, <<>>)

\* true roots listed from the newest node to the oldest
MutTrueRootsNewestFirst(nm) ==
    LET roots == TrueRootsFrom(nm, 1, <<>>)
    IN  [i \in 1..Len(roots) |-> roots[Len(roots) + 1 - i]]

findTrueRoots(nm) == TrueRootsFrom(nm, 1, <<>>)

-----------------------------------------------------------------------------
(* generateChatHistory *)

\* JSONLMerger.createMessage: the fields the merger passes to the message builder
createMessage(msgIndex, uuid, parentUuid, name, senderLabel, timestamp, isUser, messageText, branchId, branchLevel, swipeInfo) ==
    [index |-> msgIndex, uuid |-> uuid, parent_uuid |-> parentUuid,
     sender |-> IF isUser THEN "human" ELSE "assistant",
     sender_label |-> senderLabel, timestamp |-> timestamp,
     display_text |-> messageText, branch_id |-> branchId,
     branch_level |-> branchLevel, swipe_info |-> swipeInfo,
     is_branch_point |-> FALSE]

MutBranchNameFixed(branchCounter) == "branch_1"

BranchName(branchCounter) == "branch_" \o NatToString(branchCounter)

MutUuidWithoutIndex(branchId, msgIndex) == "jsonl_" \o branchId \o "_0"

MakeUuid(branchId, msgIndex) ==
    "jsonl_" \o branchId \o "_" \o NatToString(msgIndex) \o "_0"

MutKeepMsgIndex(msgIndex) == msgIndex

\* msgIndex++
NextMsgIndex(msgIndex) == msgIndex + 1

MutSecondChildContinues(childCount, childIndex) == childCount > 1 /\ childIndex > 1

\* childFingerprints.length > 1 && childIndex > 0
ChildNeedsBranch(childCount, childIndex) == childCount > 1 /\ childIndex > 0

\* a visited set kept on the instance: it still holds the nodes of the last call
MutVisitedOnInstance ==
    [chatHistory |-> <<>>, origin |-> <<>>, msgIndex |-> 0, branchCounter |-> 0,
     visited |-> {origin[i].fp : i \in 1..Len(origin)}, fpToUuid |-> <<>>,
     currentUuid |-> Undefined]

\* the local state of one generateChatHistory call
NewTraversal ==
    [chatHistory |-> <<>>, origin |-> <<>>, msgIndex |-> 0, branchCounter |-> 0,
     visited |-> {}, fpToUuid |-> <<>>, currentUuid |-> Undefined]

\* Map.prototype.set on fpToUuid, kept as a sequence of <<fingerprint, uuid>>
MapSet(m, k, v) ==
    IF \E i \in 1..Len(m) : m[i][1] = k
    THEN [i \in 1..Len(m) |-> IF m[i][1] = k THEN <<k, v>> ELSE m[i]]
    ELSE Append(m, <<k, v>>)

\* entry.name || "Unknown"
EntryName(entry) == IF entry.name # "" THEN entry.name ELSE "Unknown"

\* a selection that ignores the recorded swipe_id
MutSelectFirstSwipe(entry) == 0

\* entry.swipe_id !== undefined ? entry.swipe_id : 0   (swipe_id is <<>> or <<k>>)
SelectedSwipeId(entry) == IF entry.swipe_id # <<>> THEN entry.swipe_id[1] ELSE 0

\* a tag that looks at the fan-out of the node only
MutTagForksOnly(swipeIndex, isBranchPoint, totalSwipes) == swipeIndex = 0 /\ isBranchPoint

\* swipeIndex === 0 && (isBranchPoint || swipes.length > 1)
SwipeIsBranchPoint(swipeIndex, isBranchPoint, totalSwipes) ==
    swipeIndex = 0 /\ (isBranchPoint \/ totalSwipes > 1)

\* a loop that never assigns currentUuid
MutNeverSelected(currentUuid, selected, uuid) == currentUuid

\* a loop where every swipe overwrites currentUuid
MutLastSwipeUuid(currentUuid, selected, uuid) == uuid

\* if (swipeIndex === selectedSwipeId) currentUuid = uuid
SelectedUuid(currentUuid, selected, uuid) == IF selected THEN uuid ELSE currentUuid

\* the swipes.forEach loop of traverse, from swipe number k (swipeIndex = k - 1)
RECURSIVE ExpandSwipes(_, _, _, _, _, _, _, _)
ExpandSwipes(st, node, k, via, parentUuid, branchId, branchLevel, isBranchPoint) ==
    LET entry  == node.entry
        swipes == entry.swipes
    IN
    IF k > Len(swipes) THEN st
    ELSE
      LET swipeIndex       == k - 1
          counter          == IF swipeIndex > 0 THEN st.branchCounter + 1
                              ELSE st.branchCounter
          swipeBranchId    == IF swipeIndex > 0 THEN BranchName(counter) ELSE branchId
          swipeBranchLevel == IF swipeIndex > 0 THEN branchLevel + 1 ELSE branchLevel
          swipeMsgIndex    == st.msgIndex
          uuid             == MakeUuid(swipeBranchId, swipeMsgIndex)
          selected         == swipeIndex = SelectedSwipeId(entry)
          msg == createMessage(swipeMsgIndex, uuid, parentUuid, EntryName(entry),
                    IF entry.is_user THEN "User" ELSE EntryName(entry),
                    entry.send_date, entry.is_user, swipes[k], swipeBranchId,
                    swipeBranchLevel,
                    <<[totalSwipes |-> Len(swipes), isSelected |-> selected,
                       swipeIndex |-> swipeIndex]>>)
          msg2 == IF SwipeIsBranchPoint(swipeIndex, isBranchPoint, Len(swipes))
                  THEN [msg EXCEPT !.is_branch_point = TRUE] ELSE msg
          st2 == [st EXCEPT
                    !.branchCounter = counter,
                    !.msgIndex = NextMsgIndex(swipeMsgIndex),
                    !.currentUuid = SelectedUuid(@, selected, uuid),
                    !.fpToUuid = IF selected THEN MapSet(@, node.fingerprint, uuid)
                                 ELSE @,
                    !.chatHistory = Append(@, msg2),
                    !.origin = Append(@, [fp |-> node.fingerprint, via |-> via])]
      IN  ExpandSwipes(st2, node, k + 1, via, parentUuid, branchId, branchLevel,
                       isBranchPoint)

\* const isBranchPoint = node.children.size > 1
IsBranchPoint(node) == Len(node.children) > 1

\* the body of traverse up to the recursion: emits the node's message(s) and
\* leaves the node's uuid in currentUuid
EmitNode(st, node, via, parentUuid, branchId, branchLevel) ==
    LET entry             == node.entry
        isBranchPoint     == IsBranchPoint(node)
        messageText       == EntryContent(entry)
        hasMultipleSwipes == ~entry.is_user /\ Len(entry.swipes) > 1
    IN
    IF hasMultipleSwipes
    THEN ExpandSwipes([st EXCEPT !.currentUuid = Undefined], node, 1, via,
                      parentUuid, branchId, branchLevel, isBranchPoint)
    ELSE
      LET currentUuid == MakeUuid(branchId, st.msgIndex)
          msg == createMessage(st.msgIndex, currentUuid, parentUuid,
                    EntryName(entry),
                    IF entry.is_user THEN "User" ELSE EntryName(entry),
                    entry.send_date, entry.is_user, messageText, branchId,
                    branchLevel, <<>>)
      IN  [st EXCEPT
             !.currentUuid = currentUuid,
             !.fpToUuid = MapSet(@, node.fingerprint, currentUuid),
             !.chatHistory = Append(@, IF isBranchPoint
                                       THEN [msg EXCEPT !.is_branch_point = TRUE]
                                       ELSE msg),
             !.origin = Append(@, [fp |-> node.fingerprint, via |-> via]),
             !.msgIndex = NextMsgIndex(@)]

\* a traversal that takes no fingerprint for visited
MutNeverVisited(visited, fingerprint) == FALSE

\* visited.has(fingerprint)
AlreadyVisited(visited, fingerprint) == fingerprint \in visited

RECURSIVE traverse(_, _, _, _, _, _, _), TraverseChildren(_, _, _, _, _, _, _)

\* a child loop that follows the first child only
MutFirstChildOnly(nm, st, node, k, currentUuid, branchId, branchLevel) ==
    IF Len(node.children) = 0 THEN st
    ELSE traverse(nm, st, node.children[1], node.fingerprint, currentUuid,
                  branchId, branchLevel)

\* the childFingerprints.forEach loop of traverse, from child number k
TraverseChildren(nm, st, node, k, currentUuid, branchId, branchLevel) ==
    IF k > Len(node.children) THEN st
    ELSE
      LET fresh   == ChildNeedsBranch(Len(node.children), k - 1)
          counter == IF fresh THEN st.branchCounter + 1 ELSE st.branchCounter
          childBranchId    == IF fresh THEN BranchName(counter) ELSE branchId
          childBranchLevel == IF fresh THEN branchLevel + 1 ELSE branchLevel
          st2 == traverse(nm, [st EXCEPT !.branchCounter = counter],
                          node.children[k], node.fingerprint, currentUuid,
                          childBranchId, childBranchLevel)
      IN  TraverseChildren(nm, st2, node, k + 1, currentUuid, branchId, branchLevel)

\* traverse(fingerprint, parentUuid, branchId, branchLevel); via is the node whose
\* child loop made the call (Null for a root), kept for the origin record only
traverse(nm, st, fingerprint, via, parentUuid, branchId, branchLevel) ==
    IF AlreadyVisited(st.visited, fingerprint) THEN st
    ELSE
      LET st1 == [st EXCEPT !.visited = @ \cup {fingerprint}]
      IN  IF ~Has(nm, fingerprint) THEN st1
          ELSE LET node == Get(nm, fingerprint)
                   st2  == EmitNode(st1, node, via, parentUuid, branchId, branchLevel)
               IN  TraverseChildren(nm, st2, node, 1, st2.currentUuid, branchId,
                                    branchLevel)

\* the root loop with a visited set that is emptied before every root
RECURSIVE MutVisitedPerRoot(_, _, _, _)
MutVisitedPerRoot(nm, st, rootFps, k) ==
    IF k > Len(rootFps) THEN st
    ELSE
      LET fresh   == Len(rootFps) > 1 /\ k - 1 > 0
          counter == IF fresh THEN st.branchCounter + 1 ELSE st.branchCounter
          st2 == traverse(nm, [st EXCEPT !.branchCounter = counter, !.visited = {}],
                          rootFps[k], Null, "",
                          IF fresh THEN BranchName(counter) ELSE "main",
                          IF fresh THEN 1 ELSE 0)
      IN  MutVisitedPerRoot(nm, st2, rootFps, k + 1)

\* a root loop that starts every root on the main branch
RECURSIVE MutRootsAllMain(_, _, _, _)
MutRootsAllMain(nm, st, rootFps, k) ==
    IF k > Len(rootFps) THEN st
    ELSE MutRootsAllMain(nm, traverse(nm, st, rootFps[k], Null, "", "main", 0),
                         rootFps, k + 1)

\* the rootFps.forEach loop, from root number k
RECURSIVE TraverseRoots(_, _, _, _)
TraverseRoots(nm, st, rootFps, k) ==
    IF k > Len(rootFps) THEN st
    ELSE
      LET fresh   == Len(rootFps) > 1 /\ k - 1 > 0
          counter == IF fresh THEN st.branchCounter + 1 ELSE st.branchCounter
          rootBranchId    == IF fresh THEN BranchName(counter) ELSE "main"
          rootBranchLevel == IF fresh THEN 1 ELSE 0
          st2 == traverse(nm, [st EXCEPT !.branchCounter = counter], rootFps[k],
                          Null, "", rootBranchId, rootBranchLevel)
      IN  TraverseRoots(nm, st2, rootFps, k + 1)

\* JSONLMerger.generateChatHistory: the final local state of the call
generateChatHistory(nm) == TraverseRoots(nm, NewTraversal, findTrueRoots(nm), 1)

-----------------------------------------------------------------------------
(* The entries the runs draw from: raw SillyTavern JSONL records *)

Entry(name, isUser, mes, swipes, swipeId, sendDate, isSystem) ==
    [name |-> name, is_user |-> isUser, mes |-> mes, swipes |-> swipes,
     swipe_id |-> swipeId, send_date |-> sendDate, is_system |-> isSystem]

\* "hi" from the user
UserHi == Entry("You", TRUE, <<104, 105>>, <<>>, <<>>, "t1", FALSE)

\* "yo" from the character, and the same message exported at another time
BotYo == Entry("Bot", FALSE, <<121, 111>>, <<>>, <<>>, "t1", FALSE)

BotYoLater == Entry("Bot", FALSE, <<121, 111>>, <<>>, <<>>, "t2", FALSE)

\* "ok" from the character
BotOk == Entry("Bot", FALSE, <<111, 107>>, <<>>, <<>>, "t1", FALSE)

\* a reply with the two swipes "a" and "b", the second one selected
BotSwipes == Entry("Bot", FALSE, <<98>>, << <<97>>, <<98>> >>, <<1>>, "t1", FALSE)

\* a system marker
SystemNote == Entry("System", FALSE, <<111, 107>>, <<>>, <<>>, "t1", TRUE)

\* "ok" from the user
UserOk == Entry("You", TRUE, <<111, 107>>, <<>>, <<>>, "t1", FALSE)

\* a reply with the three swipes "d", "e", "f", the second one selected
BotThree == Entry("Bot", FALSE, <<101>>, << <<100>>, <<101>>, <<102>> >>, <<1>>, "t1", FALSE)

\* a reply with three swipes and no swipe_id
BotThreeUnset == Entry("Bot", FALSE, <<103>>, << <<103>>, <<104>>, <<105>> >>, <<>>, "t1", FALSE)

\* a reply with two swipes whose swipe_id names neither
BotSwipesAway == Entry("Bot", FALSE, <<106>>, << <<106>>, <<107>> >>, <<5>>, "t1", FALSE)

\* a user message that carries two swipes
UserSwipes == Entry("You", TRUE, <<108>>, << <<108>>, <<109>> >>, <<1>>, "t1", FALSE)

VariantEntries == {BotSwipes, BotThree, BotThreeUnset, BotSwipesAway, UserSwipes}

\* the entries of the unscripted runs
Entries == {UserHi, BotYo, BotSwipes, SystemNote}

AllEntries == {UserHi, BotYo, BotYoLater, BotOk, UserOk, BotSwipes, SystemNote}

PlainRoots == {UserHi, BotYo, BotOk, UserOk}

\* Three exports that converge and fork: [r, x], [p, x], [p, y]
ConvergeInputs ==
    {<< <<r, x>>, <<p, x>>, <<p, y>> >> :
        r \in AllEntries, x \in AllEntries, p \in AllEntries, y \in AllEntries}

\* Two exports that share an entry with variants: [p, v, c], [q, v, d]
VariantInputs ==
    {<< <<p, v, c>>, <<q, v, d>> >> :
        p \in {UserHi, UserOk, BotThree}, q \in {UserHi, UserOk, BotThree},
        v \in VariantEntries, c \in {BotYo, UserOk, BotSwipes},
        d \in {BotYo, UserOk, BotSwipes}}

\* Three exports with their own first messages: [r1, x], [r2], [r3, y]
RootInputs ==
    {<< <<r1, x>>, <<r2>>, <<r3, y>> >> :
        r1 \in PlainRoots, r2 \in PlainRoots, r3 \in PlainRoots,
        x \in PlainRoots, y \in PlainRoots}

SeqsUpTo(S, n) == UNION {[1..k -> S] : k \in 0..n}

-----------------------------------------------------------------------------
(* The multi-version export: extractGeminiMultiBranchData and the dispatcher *)

\* no adapter has produced data yet
NoData == [format |-> "none", chat_history |-> <<>>]

\* PARSER_CONFIG.ROOT_UUID, the reserved parent of the messages of the first turn
ROOT_UUID == "ROOT_UUID"

\* `${version}` for a version number that is <<>> (undefined) or <<k>>
VersionString(v) == IF v = <<>> THEN Undefined ELSE NatToString(v[1])

\* `human_${turnIndex}_v${version}` and `assistant_${turnIndex}_v${version}`
VersionUuid(side, turnIndex, v) ==
    side \o "_" \o NatToString(turnIndex) \o "_v" \o VersionString(v)

\* Map lookup in a sequence of <<key, value>>; <<>> when the key is absent
MapGet(m, k) ==
    IF \E i \in 1..Len(m) : m[i][1] = k
    THEN (CHOOSE pair \in Range(m) : pair[1] = k)[2]
    ELSE <<>>

\* a lookup that keeps the first assistant version of every turn
RECURSIVE MutFirstAssistantVersions(_, _, _)
MutFirstAssistantVersions(conversation, k, acc) ==
    IF k > Len(conversation) THEN acc
    ELSE LET turn == conversation[k]
         IN  MutFirstAssistantVersions(conversation, k + 1,
                 IF Len(turn.assistant) > 0
                 THEN MapSet(acc, turn.turnIndex, turn.assistant[1].version)
                 ELSE acc)

\* lastAssistantVersions: per turnIndex the version of the last assistant version
RECURSIVE LastAssistantVersions(_, _, _)
LastAssistantVersions(conversation, k, acc) ==
    IF k > Len(conversation) THEN acc
    ELSE LET turn == conversation[k]
         IN  LastAssistantVersions(conversation, k + 1,
                 IF Len(turn.assistant) > 0
                 THEN MapSet(acc, turn.turnIndex,
                             turn.assistant[Len(turn.assistant)].version)
                 ELSE acc)

\* the parent of the human versions of a turn
HumanParent(lastVersions, turnIndex) ==
    IF turnIndex > 0
    THEN LET prevLastVersion == MapGet(lastVersions, turnIndex - 1)
         IN  IF prevLastVersion # <<>>
             THEN VersionUuid("assistant", turnIndex - 1, prevLastVersion)
             ELSE VersionUuid("assistant", turnIndex - 1, <<0>>)
    ELSE ROOT_UUID

\* version.type || 'normal'
VersionType(version) ==
    IF version.type \in {Undefined, ""} THEN "normal" ELSE version.type

\* assistantVersion.userVersion !== undefined ? assistantVersion.userVersion : 0
UserVersion(version) == IF version.userVersion # <<>> THEN version.userVersion ELSE <<0>>

\* the message of one human version
HumanMessage(messageIndex, turnIndex, parentUuid, humanVersion) ==
    [index |-> messageIndex,
     uuid |-> VersionUuid("human", turnIndex, humanVersion.version),
     parent_uuid |-> parentUuid, sender |-> "human",
     display_text |-> humanVersion.text,
     _version |-> humanVersion.version, _version_type |-> VersionType(humanVersion),
     _user_version |-> <<>>, branch_id |-> Undefined, branch_level |-> Undefined]

\* the message of one assistant version
AssistantMessage(messageIndex, turnIndex, assistantVersion) ==
    [index |-> messageIndex,
     uuid |-> VersionUuid("assistant", turnIndex, assistantVersion.version),
     parent_uuid |-> VersionUuid("human", turnIndex, UserVersion(assistantVersion)),
     sender |-> "assistant", display_text |-> assistantVersion.text,
     _version |-> assistantVersion.version,
     _version_type |-> VersionType(assistantVersion),
     _user_version |-> UserVersion(assistantVersion),
     branch_id |-> Undefined, branch_level |-> Undefined]

\* the messages of one turn, appended to the adapter's chatHistory
TurnMessages(history, lastVersions, turn) ==
    LET parentUuid == HumanParent(lastVersions, turn.turnIndex)
        humans == [i \in 1..Len(turn.human) |->
                       HumanMessage(Len(history) + i - 1, turn.turnIndex,
                                    parentUuid, turn.human[i])]
        assistants == [j \in 1..Len(turn.assistant) |->
                           AssistantMessage(Len(history) + Len(humans) + j - 1,
                                            turn.turnIndex, turn.assistant[j])]
    IN  history \o humans \o assistants

\* the conversation.forEach loop, from turn number k
RECURSIVE ExtractTurns(_, _, _, _)
ExtractTurns(conversation, lastVersions, k, history) ==
    IF k > Len(conversation) THEN history
    ELSE ExtractTurns(conversation, lastVersions, k + 1,
                      TurnMessages(history, lastVersions, conversation[k]))

extractGeminiMultiBranchData(conversation) ==
    [format |-> "gemini_notebooklm",
     chat_history |-> ExtractTurns(conversation,
                                   LastAssistantVersions(conversation, 1, <<>>), 1, <<>>)]

\* a main-branch test that looks at the version number only
MutMainByVersionOnly(version, versionType) == version = 0

\* version === 0 && versionType === 'normal'
IsMainVersion(version, versionType) == version = 0 /\ versionType = "normal"

\* tags whose level is the version number, without a floor
MutLevelIsVersion(msg) ==
    LET version == IF msg._version = <<>> THEN 0 ELSE msg._version[1]
    IN  IF IsMainVersion(version, msg._version_type)
        THEN [msg EXCEPT !.branch_id = "main", !.branch_level = 0]
        ELSE [msg EXCEPT !.branch_id = "branch_v" \o NatToString(version),
                         !.branch_level = version]

\* the branch tags of one message of a multi-version sequence
TagVersion(msg) ==
    LET version     == IF msg._version = <<>> THEN 0 ELSE msg._version[1]
        versionType == IF msg._version_type \in {Undefined, ""} THEN "normal"
                       ELSE msg._version_type
        userVersion == IF msg._user_version # <<>> THEN msg._user_version[1] ELSE 0
    IN  IF IsMainVersion(version, versionType)
        THEN [msg EXCEPT !.branch_id = "main", !.branch_level = 0]
        ELSE [msg EXCEPT
                !.branch_id = "branch_v" \o NatToString(version) \o "_uv"
                                  \o NatToString(userVersion),
                !.branch_level = IF version > 0 THEN version ELSE 1]

\* a dispatcher that puts every message of a chat log on the main branch
MutRetagAll(msg) == [msg EXCEPT !.branch_id = "main", !.branch_level = 0]

\* the default tags for a message without a branch_id
TagDefault(msg) ==
    IF msg.branch_id \in {Undefined, ""}
    THEN [msg EXCEPT !.branch_id = "main", !.branch_level = 0]
    ELSE msg

detectOtherBranches(data) ==
    LET messages == data.chat_history
    IN  IF data.format = "jsonl_chat"
        THEN [data EXCEPT !.chat_history = [i \in 1..Len(messages) |->
                                                TagDefault(messages[i])]]
        ELSE IF data.format = "gemini_notebooklm"
        THEN IF \E i \in 1..Len(messages) : messages[i]._version # <<>>
             THEN [data EXCEPT !.chat_history = [i \in 1..Len(messages) |->
                                                     TagVersion(messages[i])]]
             ELSE [data EXCEPT !.chat_history =
                       [i \in 1..Len(messages) |->
                            [messages[i] EXCEPT !.branch_id = "main",
                                                !.branch_level = 0]]]
        ELSE data

-----------------------------------------------------------------------------
(* The merger instance as a state machine *)

InitBuilder ==
    /\ nodeMap = <<>>
    /\ rootFingerprints = <<>>
    /\ fileCount = 0
    /\ entryCount = 0
    /\ trueRoots = <<>>
    /\ chatHistory = <<>>
    /\ origin = <<>>
    /\ returned = FALSE
    /\ calls = 0
    /\ jsonData = <<>>
    /\ processedData = NoData
    /\ detected = FALSE
    /\ stack = <<>>
    /\ visitOrder = <<>>

\* a new merger; the caller either adds files of its choice (input = <<>>) or
\* merges a fixed group of three exports
Init ==
    /\ InitBuilder
    /\ input \in {<<>>} \cup ConvergeInputs \cup VariantInputs \cup RootInputs

\* merger.addFile(messages, fileIndex), called as mergeJSONLFiles does with the
\* position of the file as its index; a result returned earlier is out of date
CallAddFile(messages) ==
    LET b == addFile([nodeMap |-> nodeMap, rootFingerprints |-> rootFingerprints],
                     messages, fileCount)
    IN  /\ nodeMap' = b.nodeMap
        /\ rootFingerprints' = b.rootFingerprints
        /\ fileCount' = fileCount + 1
        /\ entryCount' = entryCount + Len(messages)
        /\ trueRoots' = <<>>
        /\ chatHistory' = <<>>
        /\ origin' = <<>>
        /\ returned' = FALSE
        /\ calls' = 0
        /\ UNCHANGED <<input, jsonData, processedData, detected, stack, visitOrder>>

AddFile ==
    \E messages \in SeqsUpTo(Entries, MaxEntries - entryCount) :
        /\ input = <<>>
        /\ fileCount < MaxFiles
        /\ CallAddFile(messages)

\* the next file of a fixed group
AddScriptedFile ==
    /\ fileCount < Len(input)
    /\ CallAddFile(input[fileCount + 1])

\* merger.generateChatHistory()
GenerateChatHistory ==
    LET st == generateChatHistory(nodeMap)
    IN  /\ calls < MaxCalls
        /\ trueRoots' = findTrueRoots(nodeMap)
        /\ chatHistory' = st.chatHistory
        /\ origin' = st.origin
        /\ returned' = TRUE
        /\ calls' = calls + 1
        /\ UNCHANGED <<nodeMap, rootFingerprints, fileCount, entryCount, input>>
        /\ UNCHANGED <<jsonData, processedData, detected, stack, visitOrder>>

Next == AddFile \/ AddScriptedFile \/ GenerateChatHistory

Spec == Init /\ [][Next]_vars

-----------------------------------------------------------------------------
(* Scripted runs: the files are chosen in the initial state and added in order *)

MaxScriptLen == 2

Dates == {"t1", "t2"}

\* entries without variants that addFile does not skip
PlainEntries == {UserHi, BotYo, BotYoLater, BotOk, UserOk}

Fp(entry) == generateMessageFingerprint(entry)

ScriptNext == AddScriptedFile \/ GenerateChatHistory

\* A = [m1, m2a], B = [m1, m2b]: m1 is the same message in both files (possibly
\* exported at another time), m1, m2a, m2b have pairwise different fingerprints
DedupInputs ==
    {<< <<m1, m2a>>, <<m1b, m2b>> >> : m1 \in PlainEntries, m1b \in PlainEntries,
                                       m2a \in PlainEntries, m2b \in PlainEntries}

InitDedup ==
    /\ InitBuilder
    /\ input \in {in \in DedupInputs :
                    /\ Fp(in[1][1]) = Fp(in[2][1])
                    /\ Fp(in[1][1]) # Fp(in[1][2])
                    /\ Fp(in[1][1]) # Fp(in[2][2])
                    /\ Fp(in[1][2]) # Fp(in[2][2])}

SpecDedup == InitDedup /\ [][ScriptNext]_vars

\* F, then a copy of F whose entries differ from F's in their timestamps only
Redated(F) ==
    {[k \in 1..Len(F) |-> [F[k] EXCEPT !.send_date = d[k]]] :
        d \in [1..Len(F) -> Dates]}

InitTwice ==
    /\ InitBuilder
    /\ input \in UNION {{<<F, G>> : G \in Redated(F)} :
                            F \in SeqsUpTo(AllEntries, MaxScriptLen)}

SpecTwice == InitTwice /\ [][ScriptNext]_vars

-----------------------------------------------------------------------------
(* Reading a returned history *)

Positions == 1..Len(chatHistory)

\* the positions of the messages emitted for the node fp
MessagesOf(fp) == {i \in Positions : origin[i].fp = fp}

Emitted(fp) == MessagesOf(fp) # {}

FirstMessageOf(fp) == CHOOSE i \in MessagesOf(fp) : \A j \in MessagesOf(fp) : i <= j

\* the branch id a node was traversed with (carried by its first message)
NodeBranch(fp) == chatHistory[FirstMessageOf(fp)].branch_id

\* the branch id of message i is used by no message emitted before it
FreshBranch(i) == \A j \in 1..(i - 1) : chatHistory[j].branch_id # chatHistory[i].branch_id

\* the number of messages one visit of a node appends
EmitCount(node) ==
    IF ~node.entry.is_user /\ Len(node.entry.swipes) > 1 THEN Len(node.entry.swipes)
    ELSE 1

-----------------------------------------------------------------------------
(* C1  Dedup: merging A = [m1, m2a] and B = [m1, m2b] creates one node for m1  *)
(* and returns exactly m1, m2a, m2b in this order; m2a is on "main", m2b on     *)
(* "branch_1", and both have m1's uuid as parentUuid.                           *)

DedupScenario ==
    (returned /\ fileCount = 2) =>
        /\ Cardinality({i \in 1..Len(nodeMap) :
                            nodeMap[i].fingerprint = Fp(input[1][1])}) = 1
        /\ Len(chatHistory) = 3
        /\ origin[1].fp = Fp(input[1][1])
        /\ origin[2].fp = Fp(input[1][2])
        /\ origin[3].fp = Fp(input[2][2])
        /\ chatHistory[1].display_text = input[1][1].mes
        /\ chatHistory[2].display_text = input[1][2].mes
        /\ chatHistory[3].display_text = input[2][2].mes
        /\ chatHistory[2].branch_id = "main"
        /\ chatHistory[3].branch_id = "branch_1"
        /\ chatHistory[2].parent_uuid = chatHistory[1].uuid
        /\ chatHistory[3].parent_uuid = chatHistory[1].uuid

\* both files were merged, and B's copy of m1 carries another timestamp
DedupScenarioWitness ==
    /\ returned /\ fileCount = 2
    /\ input[2][1] # input[1][1]
    /\ Len(chatHistory) = 3

-----------------------------------------------------------------------------
(* C2  Idempotent dedup: after adding F and then a copy of F that differs in   *)
(* timestamps only, the node map has the fingerprints (and the node count) it   *)
(* has after adding F once.                                                     *)

IdempotentDedup ==
    fileCount = 2 =>
        LET once == addFile(EmptyBuilder, input[1], 0).nodeMap
        IN  /\ Keys(nodeMap) = Keys(once)
            /\ Len(nodeMap) = Len(once)

\* the copy was added, it differs from the original, and several nodes exist
IdempotentDedupWitness ==
    /\ fileCount = 2
    /\ \A k \in 1..Len(input[1]) : input[2][k].send_date # input[1][k].send_date
    /\ Len(nodeMap) >= 2

-----------------------------------------------------------------------------
(* C3  Every uuid of a returned history differs from the uuid of every other   *)
(* message of that history.                                                     *)

UuidsUnique ==
    \A i \in Positions : \A j \in Positions :
        i # j => chatHistory[i].uuid # chatHistory[j].uuid

\* a history holding variant siblings and messages of three different branches
UuidsUniqueWitness ==
    /\ returned
    /\ \E i \in Positions : chatHistory[i].swipe_info # <<>>
    /\ Cardinality({chatHistory[i].branch_id : i \in Positions}) >= 3

-----------------------------------------------------------------------------
(* C4  displayIndex is strictly increasing along a returned history.           *)

DisplayIndexIncreasing ==
    \A i \in Positions : \A j \in Positions :
        i < j => chatHistory[i].index < chatHistory[j].index

\* a history of at least four messages, variant siblings among them
DisplayIndexIncreasingWitness ==
    /\ returned
    /\ Len(chatHistory) >= 4
    /\ \E i \in Positions : chatHistory[i].swipe_info # <<>>
                              /\ chatHistory[i].swipe_info[1].swipeIndex > 0

-----------------------------------------------------------------------------
(* C5  For every non-empty parent uuid p shared by more than one emitted       *)
(* message, exactly one of these messages has the branchId and branchLevel of   *)
(* the message whose uuid is p, and every other one has a branchId used by no   *)
(* earlier message and branchLevel = that message's branchLevel + 1.            *)

MessageWithUuid(p) == CHOOSE i \in Positions : chatHistory[i].uuid = p

ChildrenOfUuid(p) == {i \in Positions : chatHistory[i].parent_uuid = p}

SharedParentBranching ==
    \A k \in Positions :
        LET p    == chatHistory[k].uuid
            pm   == chatHistory[MessageWithUuid(p)]
            kids == ChildrenOfUuid(p)
            cont == {i \in kids : /\ chatHistory[i].branch_id = pm.branch_id
                                  /\ chatHistory[i].branch_level = pm.branch_level}
        IN  Cardinality(kids) > 1 =>
                /\ Cardinality(cont) = 1
                /\ \A i \in kids \ cont :
                       /\ FreshBranch(i)
                       /\ chatHistory[i].branch_level = pm.branch_level + 1

-----------------------------------------------------------------------------
(* C6  Branch uniqueness.  As claimed: of the k > 1 children of a node exactly  *)
(* one is emitted with the node's own branch id and the other k - 1 with        *)
(* pairwise distinct branch_N ids.  (Read for the nodes the history contains:   *)
(* a node that is never emitted has no branch id to compare with.)              *)

ForkNodes == {i \in 1..Len(nodeMap) : Len(nodeMap[i].children) > 1}

BranchUniquenessAllChildren ==
    returned =>
        \A n \in ForkNodes :
            LET node == nodeMap[n]
                kids == Range(node.children)
            IN  Emitted(node.fingerprint) =>
                  /\ \A c \in kids : Emitted(c)
                  /\ LET own  == NodeBranch(node.fingerprint)
                         cont == {c \in kids : NodeBranch(c) = own}
                     IN  /\ Cardinality(cont) = 1
                         /\ \A c \in kids \ cont : NodeBranch(c) # "main"
                         /\ \A c \in kids \ cont : \A d \in kids \ cont :
                                c # d => NodeBranch(c) # NodeBranch(d)

(* C6 as amended: for every emitted node with k > 1 children, among the children   *)
(* first reached through that node, the first-listed child (if it is one of     *)
(* them) is emitted with the node's branch id and every other one with a        *)
(* branch_N id used by no earlier message, so these ids are pairwise distinct;  *)
(* a child already visited is not emitted again.                                *)

\* the children of a node that its child loop materialised
ReachedThrough(node) ==
    {c \in Range(node.children) :
        Emitted(c) /\ origin[FirstMessageOf(c)].via = node.fingerprint}

BranchUniquenessFirstReached ==
    returned =>
        \A n \in ForkNodes :
            LET node == nodeMap[n]
                own  == NodeBranch(node.fingerprint)
                kids == ReachedThrough(node)
            IN  Emitted(node.fingerprint) =>
                  /\ \A c \in Range(node.children) : Emitted(c)
                  /\ \A c \in kids :
                       IF c = node.children[1]
                       THEN NodeBranch(c) = own
                       ELSE /\ FreshBranch(FirstMessageOf(c))
                            /\ NodeBranch(c) # "main"
                  /\ \A c \in kids : \A d \in kids :
                       c # d => NodeBranch(c) # NodeBranch(d)

\* a fork with a child that had been emitted before the fork's child loop
\* reached it, and another child that the fork itself put on a new branch
BranchUniquenessWitness ==
    /\ returned
    /\ \E n \in ForkNodes :
          LET node == nodeMap[n]
          IN  /\ Emitted(node.fingerprint)
              /\ \E c \in Range(node.children) :
                     c \notin ReachedThrough(node) /\ c # node.fingerprint
              /\ \E c \in ReachedThrough(node) : c # node.children[1]

-----------------------------------------------------------------------------
(* C7  findTrueRoots returns exactly the fingerprints of the node map none of   *)
(* whose parents is a key of the node map.                                      *)

NoValidParent == {i \in 1..Len(nodeMap) :
                     \A q \in Range(nodeMap[i].parents) : q \notin Keys(nodeMap)}

RootValidity ==
    returned => Range(trueRoots) = {nodeMap[i].fingerprint : i \in NoValidParent}

\* roots were computed for a graph of at least three nodes in which a message
\* that starts one file has a parent from another file
RootValidityWitness ==
    /\ returned
    /\ Len(trueRoots) >= 1
    /\ Len(nodeMap) >= 3
    /\ \E i \in 1..Len(nodeMap) : nodeMap[i].isRoot /\ i \notin NoValidParent

-----------------------------------------------------------------------------
(* C8  No duplicate emission: a node is materialised by its first visit only;    *)
(* its messages form one block of the history (one message, or one per variant) *)
(* and reaching it again appends nothing.                                       *)

NoDuplicateEmission ==
    returned =>
        \A n \in 1..Len(nodeMap) :
            LET ms == MessagesOf(nodeMap[n].fingerprint)
            IN  ms # {} =>
                  /\ Cardinality(ms) = EmitCount(nodeMap[n])
                  /\ \A i \in ms : \A j \in ms : \A k \in i..j : k \in ms

\* an emitted node that the traversal reaches over two different edges
NoDuplicateEmissionWitness ==
    /\ returned
    /\ \E n \in 1..Len(nodeMap) :
          /\ Emitted(nodeMap[n].fingerprint)
          /\ Cardinality({q \in Range(nodeMap[n].parents) : Emitted(q)}) >= 2

-----------------------------------------------------------------------------
(* C9  No lost messages: every node of the node map is represented by at least  *)
(* one message of the returned history.                                         *)

NoLostMessages ==
    returned => \A n \in 1..Len(nodeMap) : Emitted(nodeMap[n].fingerprint)

\* Two exports of one entry each; the entries vary in every field
FingerprintEntries ==
    [name : {"Bot", "You"}, is_user : BOOLEAN, mes : {<<>>, <<97>>},
     swipes : {<<>>, << <<97>>, <<98>> >>, << <<98>> >>}, swipe_id : {<<>>, <<1>>},
     send_date : Dates, is_system : {FALSE}]

InitFingerprint ==
    /\ InitBuilder
    /\ input \in {<< <<e1>>, <<e2>> >> : e1 \in FingerprintEntries,
                                         e2 \in FingerprintEntries}

SpecFingerprint == InitFingerprint /\ [][ScriptNext]_vars

\* Two exports over a user message, a reply and a system marker
SystemFiles == SeqsUpTo({UserHi, BotYo, SystemNote}, MaxSystemLen)

InitSystem ==
    /\ InitBuilder
    /\ input \in {<<F, G>> : F \in SystemFiles, G \in SystemFiles}

SpecSystem == InitSystem /\ [][ScriptNext]_vars

-----------------------------------------------------------------------------
(* The multi-version export as a state machine *)

\* a version of the human or of the assistant side
Version(version, type, userVersion) ==
    [version |-> <<version>>, type |-> type, userVersion |-> userVersion, text |-> "t"]

HumanLists ==
    {<<>>, <<Version(0, "normal", <<>>)>>,
     <<Version(0, "normal", <<>>), Version(1, "edit", <<>>)>>}

AssistantVersions ==
    {Version(v, t, u) : v \in {0, 1}, t \in {Undefined, "normal", "retry", "edit"},
                        u \in {<<>>, <<0>>, <<1>>}}

AssistantLists == SeqsUpTo(AssistantVersions, 2)

Turn(turnIndex, human, assistant) ==
    [turnIndex |-> turnIndex, human |-> human, assistant |-> assistant]

\* the second turn of a conversation, when it has one
SecondTurns ==
    {Turn(1, h, a) : h \in HumanLists \ {<<>>},
                     a \in {<<>>, <<Version(0, "normal", <<>>)>>,
                            <<Version(0, "normal", <<>>), Version(1, "retry", <<1>>)>>}}

GeminiConversations ==
    {<<Turn(0, h, a)>> : h \in HumanLists, a \in AssistantLists}
        \cup {<<Turn(0, h, a), second>> :
                  h \in HumanLists \ {<<>>}, a \in AssistantLists,
                  second \in SecondTurns}

InitGemini ==
    /\ nodeMap = <<>>
    /\ rootFingerprints = <<>>
    /\ fileCount = 0
    /\ entryCount = 0
    /\ trueRoots = <<>>
    /\ chatHistory = <<>>
    /\ origin = <<>>
    /\ returned = FALSE
    /\ calls = 0
    /\ input = <<>>
    /\ jsonData \in GeminiConversations
    /\ processedData = NoData
    /\ detected = FALSE
    /\ stack = <<>>
    /\ visitOrder = <<>>

\* processedData = extractGeminiData(jsonData) on a multi-version export
ExtractGeminiData ==
    /\ processedData = NoData
    /\ processedData' = extractGeminiMultiBranchData(jsonData)
    /\ detected' = FALSE
    /\ UNCHANGED <<nodeMap, rootFingerprints, fileCount, entryCount, trueRoots,
                   chatHistory, origin, returned, calls, input, jsonData, stack,
                   visitOrder>>

\* detectOtherBranches(processedData)
DetectOtherBranches ==
    /\ processedData # NoData
    /\ processedData' = detectOtherBranches(processedData)
    /\ detected' = TRUE
    /\ UNCHANGED <<nodeMap, rootFingerprints, fileCount, entryCount, trueRoots,
                   chatHistory, origin, returned, calls, input, jsonData, stack,
                   visitOrder>>

GeminiNext == ExtractGeminiData \/ DetectOtherBranches

SpecGemini == InitGemini /\ [][GeminiNext]_vars

-----------------------------------------------------------------------------
(* The dispatcher on a merged chat log *)

\* the merger after merger.addFile(messages, fileIndex) for the first k files
RECURSIVE MergeFiles(_, _)
MergeFiles(filesData, k) ==
    IF k = 0 THEN EmptyBuilder
    ELSE addFile(MergeFiles(filesData, k - 1), filesData[k], k - 1)

\* mergeJSONLFiles(filesData).chatHistory
mergeJSONLFiles(filesData) ==
    IF Len(filesData) = 0 THEN <<>>
    ELSE generateChatHistory(MergeFiles(filesData, Len(filesData)).nodeMap).chatHistory

extractMergedJSONLData(filesData) ==
    [format |-> "jsonl_chat", chat_history |-> mergeJSONLFiles(filesData)]

\* the same data with no branch_id on the messages at the positions in S
Untagged(data, S) ==
    [data EXCEPT !.chat_history =
        [k \in 1..Len(data.chat_history) |->
            IF k \in S THEN [data.chat_history[k] EXCEPT !.branch_id = Undefined,
                                                         !.branch_level = Undefined]
            ELSE data.chat_history[k]]]

\* two exports that share a reply with variants and then diverge
DispatchFiles ==
    {<< <<UserHi, v, c>>, <<UserHi, v, d>> >> :
        v \in {BotSwipes, BotThree}, c \in {BotYo, UserOk}, d \in {BotYo, UserOk}}

\* the chat logs handed to the dispatcher: merged histories, some without tags
DispatchData ==
    UNION {{Untagged(extractMergedJSONLData(filesData), S) :
                S \in SUBSET (1..Len(mergeJSONLFiles(filesData)))} :
           filesData \in DispatchFiles}

InitDispatch ==
    /\ nodeMap = <<>>
    /\ rootFingerprints = <<>>
    /\ fileCount = 0
    /\ entryCount = 0
    /\ trueRoots = <<>>
    /\ chatHistory = <<>>
    /\ origin = <<>>
    /\ returned = FALSE
    /\ calls = 0
    /\ input = <<>>
    /\ jsonData = <<>>
    /\ processedData \in DispatchData
    /\ detected = FALSE
    /\ stack = <<>>
    /\ visitOrder = <<>>

DispatchNext == DetectOtherBranches

SpecDispatch == InitDispatch /\ [][DispatchNext]_vars

-----------------------------------------------------------------------------
(* The traversal of generateChatHistory, followed call by call *)

\* exports with repeated messages: self-loops, cycles and opposite orders
CycleEntries == {UserHi, BotYo, BotOk}

CycleInputs ==
    {<<F, G>> : F \in SeqsUpTo(CycleEntries, 3), G \in SeqsUpTo(CycleEntries, 3)}

InitTraverse ==
    /\ InitBuilder
    /\ input \in CycleInputs

\* the fingerprints a pending call iterates over: the true roots for the root
\* loop (node = Null), the children of its node otherwise
Pending(frame) ==
    IF frame.node = Null THEN trueRoots ELSE Get(nodeMap, frame.node).children

\* generateChatHistory is entered: the root loop is about to start
StartTraversal ==
    /\ fileCount = Len(input)
    /\ stack = <<>>
    /\ calls < MaxCalls
    /\ calls' = calls + 1
    /\ trueRoots' = findTrueRoots(nodeMap)
    /\ stack' = <<[node |-> Null, k |-> 1]>>
    /\ visitOrder' = <<>>
    /\ UNCHANGED <<nodeMap, rootFingerprints, fileCount, entryCount, chatHistory,
                   origin, returned, input, jsonData, processedData, detected>>

\* the innermost pending call makes its next call traverse(fingerprint, ...),
\* or returns when its loop is over
TraverseStep ==
    /\ stack # <<>>
    /\ LET top  == stack[Len(stack)]
           rest == SubSeq(stack, 1, Len(stack) - 1)
       IN  IF top.k > Len(Pending(top))
           THEN /\ stack' = rest
                /\ UNCHANGED visitOrder
           ELSE LET fingerprint == Pending(top)[top.k]
                    advanced    == Append(rest, [top EXCEPT !.k = @ + 1])
                IN  IF AlreadyVisited(Range(visitOrder), fingerprint)
                    THEN /\ stack' = advanced
                         /\ UNCHANGED visitOrder
                    ELSE /\ Len(stack) < MaxDepth
                         /\ visitOrder' = Append(visitOrder, fingerprint)
                         /\ stack' = IF Has(nodeMap, fingerprint)
                                     THEN Append(advanced, [node |-> fingerprint, k |-> 1])
                                     ELSE advanced
    /\ UNCHANGED <<nodeMap, rootFingerprints, fileCount, entryCount, trueRoots,
                   chatHistory, origin, returned, calls, input, jsonData,
                   processedData, detected>>

TraverseNext == AddScriptedFile \/ StartTraversal \/ TraverseStep

SpecTraverse == InitTraverse /\ [][TraverseNext]_vars

\* a call that has been made goes on until it returns
SpecTraverseFair == SpecTraverse /\ WF_vars(TraverseStep)

-----------------------------------------------------------------------------
(* C11  Single use.  As claimed: on a non-empty graph a second call of          *)
(* generateChatHistory with no addFile in between does not return the history   *)
(* of the first call.                                                           *)

-----------------------------------------------------------------------------
(* C12  One node per fingerprint.  After every addFile the node map holds one   *)
(* node per distinct fingerprint of the non-system entries added so far, keyed  *)
(* by the fingerprint of its stored entry.  A later occurrence of a fingerprint *)
(* creates no node and replaces neither the node nor its stored entry: an old   *)
(* node keeps its position, fingerprint and entry, its file indices grow by at  *)
(* most the index of the file added, and its edges are only extended.           *)

\* the non-system entries of the scripted files added so far, file k of input
SeenEntries(k) == {input[k][j] : j \in {j \in 1..Len(input[k]) : ~input[k][j].is_system}}

IsPrefix(s, t) == Len(s) <= Len(t) /\ \A i \in 1..Len(s) : t[i] = s[i]

OneNodePerFingerprint ==
    [][fileCount' = fileCount + 1 =>
        /\ \A i \in 1..Len(nodeMap'), j \in 1..Len(nodeMap') :
               nodeMap'[i].fingerprint = nodeMap'[j].fingerprint => i = j
        /\ \A i \in 1..Len(nodeMap') :
               /\ ~nodeMap'[i].entry.is_system
               /\ nodeMap'[i].fingerprint = Fp(nodeMap'[i].entry)
        /\ Len(nodeMap') >= Len(nodeMap)
        /\ \A i \in 1..Len(nodeMap) :
               /\ nodeMap'[i].fingerprint = nodeMap[i].fingerprint
               /\ nodeMap'[i].entry = nodeMap[i].entry
               /\ nodeMap[i].fileIndices \subseteq nodeMap'[i].fileIndices
               /\ nodeMap'[i].fileIndices \subseteq nodeMap[i].fileIndices \cup {fileCount}
               /\ IsPrefix(nodeMap[i].parents, nodeMap'[i].parents)
               /\ IsPrefix(nodeMap[i].children, nodeMap'[i].children)
        /\ \A i \in (Len(nodeMap) + 1)..Len(nodeMap') :
               nodeMap'[i].fileIndices = {fileCount}
        /\ input # <<>> =>
               /\ Keys(nodeMap') =
                      {Fp(e) : e \in UNION {SeenEntries(k) : k \in 1..fileCount'}}
               /\ \A i \in 1..Len(nodeMap') :
                      nodeMap'[i].fileIndices =
                          {k - 1 : k \in {k \in 1..fileCount' :
                              \E e \in SeenEntries(k) : Fp(e) = nodeMap'[i].fingerprint}}
    ]_vars

\* "yo" came again in a later file, exported at another time: its node still
\* holds the first entry and lists both files
OneNodePerFingerprintWitness ==
    /\ Len(input) >= 2
    /\ fileCount >= 2
    /\ BotYoLater \in SeenEntries(2)
    /\ \E i \in 1..Len(nodeMap) :
           /\ nodeMap[i].entry = BotYo
           /\ {0, 1} \subseteq nodeMap[i].fileIndices

-----------------------------------------------------------------------------
(* C13  Order independence.  Whatever the order of the addFile calls, each file *)
(* keeping its own file index, the final graph has the same fingerprints and,   *)
(* per fingerprint, the same set of parents, set of children, file indices and  *)
(* isRoot flag, and the same set of file-root candidates.                       *)

\* the orders in which n files can be added
Orders(n) == {f \in [1..n -> 1..n] : \A i \in 1..n, j \in 1..n : f[i] = f[j] => i = j}

\* the builder after the first k calls addFile(files[order[i]], order[i] - 1)
RECURSIVE BuildInOrder(_, _, _)
BuildInOrder(files, order, k) ==
    IF k = 0 THEN EmptyBuilder
    ELSE addFile(BuildInOrder(files, order, k - 1), files[order[k]], order[k] - 1)

\* a graph up to the order of its sets and the entry a node happens to store
NodeSets(b) ==
    [nodes |-> {[fingerprint |-> b.nodeMap[i].fingerprint,
                 parents     |-> Range(b.nodeMap[i].parents),
                 children    |-> Range(b.nodeMap[i].children),
                 fileIndices |-> b.nodeMap[i].fileIndices,
                 isRoot      |-> b.nodeMap[i].isRoot] : i \in 1..Len(b.nodeMap)},
     rootFingerprints |-> Range(b.rootFingerprints)]

Built == [nodeMap |-> nodeMap, rootFingerprints |-> rootFingerprints]

OrderIndependence ==
    (input # <<>> /\ fileCount = Len(input)) =>
        \A order \in Orders(Len(input)) :
            NodeSets(BuildInOrder(input, order, Len(input))) = NodeSets(Built)

\* three files were added and another order of the same calls stores another
\* entry for some fingerprint and lists the nodes in another order
OrderIndependenceWitness ==
    /\ fileCount = 3
    /\ Len(input) = 3
    /\ \E order \in Orders(3) :
           LET other == BuildInOrder(input, order, 3).nodeMap
           IN  /\ \E i \in 1..Len(other) :
                      other[i].entry # Get(nodeMap, other[i].fingerprint).entry
               /\ \E i \in 1..Len(other) :
                      other[i].fingerprint # nodeMap[i].fingerprint

-----------------------------------------------------------------------------
(* C14  Variant expansion.  An emitted reply entry (not from the user) with     *)
(* n > 1 variants gives exactly n consecutive messages in the order of the      *)
(* variant list, all with one parent_uuid; the i-th has the i-th variant as     *)
(* text and swipe_info {totalSwipes n, swipeIndex i, isSelected iff i is the    *)
(* selected index, 0 when no swipe_id is recorded}.  The first variant carries  *)
(* the branch the node was reached with (main / 0 for the first root, the       *)
(* branch and level of the node before it when it is that node's only or        *)
(* first child); every other variant gets a fresh branch_N one level deeper.    *)

\* the nodes of the graph whose entry is expanded into variants
VariantNodes ==
    {i \in 1..Len(nodeMap) :
        ~nodeMap[i].entry.is_user /\ Len(nodeMap[i].entry.swipes) > 1}

\* the selected index as recorded in an entry
RecordedSelection(entry) == IF entry.swipe_id = <<>> THEN 0 ELSE entry.swipe_id[1]

VariantExpansion ==
    returned =>
        \A v \in {i \in VariantNodes : Emitted(nodeMap[i].fingerprint)} :
            LET node  == nodeMap[v]
                fp    == node.fingerprint
                n     == Len(node.entry.swipes)
                f     == FirstMessageOf(fp)
                first == chatHistory[f]
                via   == origin[f].via
            IN  /\ MessagesOf(fp) = f..(f + n - 1)
                /\ \A i \in 0..(n - 1) :
                       LET msg == chatHistory[f + i]
                       IN  /\ msg.display_text = node.entry.swipes[i + 1]
                           /\ msg.swipe_info =
                                  <<[totalSwipes |-> n, swipeIndex |-> i,
                                     isSelected |-> (i = RecordedSelection(node.entry))]>>
                           /\ msg.parent_uuid = first.parent_uuid
                           /\ i > 0 =>
                                  /\ msg.branch_id # "main"
                                  /\ FreshBranch(f + i)
                                  /\ msg.branch_level = first.branch_level + 1
                /\ (via = Null /\ fp = trueRoots[1]) =>
                       first.branch_id = "main" /\ first.branch_level = 0
                /\ (via # Null /\ Get(nodeMap, via).children[1] = fp) =>
                       /\ first.branch_id = NodeBranch(via)
                       /\ first.branch_level = chatHistory[FirstMessageOf(via)].branch_level

\* a reply with three variants and no swipe_id was expanded below a parent, and
\* so was a reply whose second variant is the selected one
VariantExpansionWitness ==
    /\ returned
    /\ \E v \in VariantNodes :
           /\ Emitted(nodeMap[v].fingerprint)
           /\ Len(nodeMap[v].entry.swipes) = 3
           /\ nodeMap[v].entry.swipe_id = <<>>
           /\ origin[FirstMessageOf(nodeMap[v].fingerprint)].via # Null
    /\ \E v \in VariantNodes :
           /\ Emitted(nodeMap[v].fingerprint)
           /\ nodeMap[v].entry.swipe_id = <<1>>

-----------------------------------------------------------------------------
(* C15  Selected-variant continuation.  For an emitted reply with n > 1         *)
(* variants whose selected index s is in 0..n-1, every message emitted as a     *)
(* child of that node has parent_uuid = the uuid of variant s; and no message   *)
(* at all has the uuid of a variant that is not the selected one as its         *)
(* parent_uuid.                                                                 *)

SelectedContinuation ==
    returned =>
        \A v \in {i \in VariantNodes : Emitted(nodeMap[i].fingerprint)} :
            LET node == nodeMap[v]
                fp   == node.fingerprint
                n    == Len(node.entry.swipes)
                s    == RecordedSelection(node.entry)
                f    == FirstMessageOf(fp)
            IN  /\ s \in 0..(n - 1) =>
                       \A k \in Positions :
                           origin[k].via = fp =>
                               chatHistory[k].parent_uuid = chatHistory[f + s].uuid
                /\ \A t \in (0..(n - 1)) \ {s} : \A k \in Positions :
                       chatHistory[k].parent_uuid # chatHistory[f + t].uuid

\* a reply with three variants, the second selected, has two emitted children
SelectedContinuationWitness ==
    /\ returned
    /\ \E v \in VariantNodes :
           /\ nodeMap[v].entry.swipe_id = <<1>>
           /\ Len(nodeMap[v].entry.swipes) = 3
           /\ Cardinality({k \in Positions : origin[k].via = nodeMap[v].fingerprint}) >= 2

-----------------------------------------------------------------------------
(* C17  Fingerprint inputs.  Two entries with the same sender name, the same    *)
(* is_user flag and the same content (mes, or the first variant when mes is     *)
(* empty) have the same fingerprint, whatever their send_date, swipe_id and     *)
(* other variants: added from two files they are one node listing both files.   *)

\* the content of an entry as the claim words it
ClaimedContent(e) ==
    IF e.mes # <<>> THEN e.mes ELSE IF e.swipes # <<>> THEN e.swipes[1] ELSE <<>>

SameFingerprintInputs(e1, e2) ==
    /\ e1.name = e2.name
    /\ e1.is_user = e2.is_user
    /\ ClaimedContent(e1) = ClaimedContent(e2)

FingerprintInputsOnly ==
    (Len(input) = 2 /\ fileCount = 2 /\ Len(input[1]) = 1 /\ Len(input[2]) = 1) =>
        (SameFingerprintInputs(input[1][1], input[2][1]) =>
            /\ Len(nodeMap) = 1
            /\ nodeMap[1].fingerprint = Fp(input[2][1])
            /\ nodeMap[1].fileIndices = {0, 1})

\* two entries that differ in mes, variants, swipe_id and send_date but not in
\* name, is_user and content became one node
FingerprintInputsOnlyWitness ==
    /\ Len(input) = 2 /\ fileCount = 2 /\ Len(input[1]) = 1 /\ Len(input[2]) = 1
    /\ SameFingerprintInputs(input[1][1], input[2][1])
    /\ input[1][1].mes # input[2][1].mes
    /\ input[1][1].swipes # input[2][1].swipes
    /\ input[1][1].swipe_id # input[2][1].swipe_id
    /\ input[1][1].send_date # input[2][1].send_date
    /\ Len(nodeMap) = 1

-----------------------------------------------------------------------------
(* C18  System entries are transparent.  The graph built by adding files is     *)
(* the graph built by adding the same files with their system entries removed:  *)
(* same nodes in the same order, same edges, file indices, isRoot flags and     *)
(* file-root candidates.  A system entry creates no node and does not cut the   *)
(* chain between the entries around it.                                         *)

RECURSIVE WithoutSystem(_)
WithoutSystem(messages) ==
    IF messages = <<>> THEN <<>>
    ELSE IF Head(messages).is_system THEN WithoutSystem(Tail(messages))
         ELSE <<Head(messages)>> \o WithoutSystem(Tail(messages))

\* the builder after addFile(WithoutSystem(input[i]), i - 1) for i = 1..k
RECURSIVE BuildWithoutSystem(_)
BuildWithoutSystem(k) ==
    IF k = 0 THEN EmptyBuilder
    ELSE addFile(BuildWithoutSystem(k - 1), WithoutSystem(input[k]), k - 1)

SystemTransparent ==
    (input # <<>> /\ fileCount <= Len(input)) => Built = BuildWithoutSystem(fileCount)

\* a file with a system entry between two real entries, and one that starts
\* with a system entry, were added
SystemTransparentWitness ==
    /\ Len(input) = 2
    /\ fileCount = 2
    /\ input[1] = <<UserHi, SystemNote, BotYo>>
    /\ Len(input[2]) = 3
    /\ input[2][1] = SystemNote
    /\ input[2][2] = BotYo
    /\ Get(nodeMap, Fp(BotYo)).parents = <<Fp(UserHi)>>
    /\ Get(nodeMap, Fp(BotYo)).isRoot

-----------------------------------------------------------------------------
(* C19  Root order.  generateChatHistory starts its traversals from the true    *)
(* roots in the order in which their fingerprints were first recorded as        *)
(* file-root candidates: the sequence of true roots is rootFingerprints with    *)
(* the candidates that are not true roots left out, and the first messages of   *)
(* the true roots appear in the history in that order.                          *)

RECURSIVE Restrict(_, _)
Restrict(seq, S) ==
    IF seq = <<>> THEN <<>>
    ELSE IF Head(seq) \in S THEN <<Head(seq)>> \o Restrict(Tail(seq), S)
         ELSE Restrict(Tail(seq), S)

RootOrder ==
    returned =>
        /\ trueRoots = Restrict(rootFingerprints, Range(trueRoots))
        /\ \A k \in 1..Len(trueRoots) :
               /\ Emitted(trueRoots[k])
               /\ origin[FirstMessageOf(trueRoots[k])].via = Null
        /\ \A a \in 1..Len(trueRoots), b \in 1..Len(trueRoots) :
               a < b => FirstMessageOf(trueRoots[a]) < FirstMessageOf(trueRoots[b])

\* three file-root candidates were recorded, the second of them is not a true
\* root, and the traversal started from the two others
RootOrderWitness ==
    /\ returned
    /\ Len(rootFingerprints) = 3
    /\ Len(trueRoots) = 2
    /\ rootFingerprints[2] \notin Range(trueRoots)
    /\ Len(chatHistory) >= 3

-----------------------------------------------------------------------------
(* C20  Multiple roots.  With r >= 1 true roots the message of the first root   *)
(* has branch "main" at level 0 and the message of every later root has an      *)
(* empty parent_uuid, level 1 and a fresh branch_N that is not "main" and is    *)
(* the branch id of no message emitted before it.                               *)

MultipleRoots ==
    returned =>
        \A k \in 1..Len(trueRoots) :
            LET f   == FirstMessageOf(trueRoots[k])
                msg == chatHistory[f]
            IN  /\ Emitted(trueRoots[k])
                /\ msg.parent_uuid = ""
                /\ k = 1 => (f = 1 /\ msg.branch_id = "main" /\ msg.branch_level = 0)
                /\ k > 1 =>
                       /\ msg.branch_level = 1
                       /\ msg.branch_id # "main"
                       /\ FreshBranch(f)
                       /\ \E c \in 1..Len(chatHistory) : msg.branch_id = BranchName(c)

\* a second root was started after the first root's tree had already used
\* branch ids of its own
MultipleRootsWitness ==
    /\ returned
    /\ Len(trueRoots) >= 2
    /\ Emitted(trueRoots[2])
    /\ chatHistory[FirstMessageOf(trueRoots[2])].branch_id \notin {"main", "branch_1"}

-----------------------------------------------------------------------------
(* C16  Multi-version export, adapter then dispatcher.  In every turn an        *)
(* assistant version numbered 0 of type normal is tagged "main" at level 0; an  *)
(* assistant version with a higher number or of type retry or edit is tagged    *)
(* with a branch id other than "main" at a level >= 1; and the parent_uuid of   *)
(* every assistant version is the uuid of the human version of its turn that    *)
(* its userVersion names (version 0 when it has none).                          *)

\* the number of messages of the turns before turn k
RECURSIVE MessagesBefore(_)
MessagesBefore(k) ==
    IF k = 1 THEN 0
    ELSE MessagesBefore(k - 1) + Len(jsonData[k - 1].human)
             + Len(jsonData[k - 1].assistant)

\* the messages of the i-th human and the j-th assistant version of turn k
HumanMessageAt(k, i) == processedData.chat_history[MessagesBefore(k) + i]

AssistantMessageAt(k, j) ==
    processedData.chat_history[MessagesBefore(k) + Len(jsonData[k].human) + j]

\* the human version an assistant version answers
Answers(av) == IF av.userVersion = <<>> THEN <<0>> ELSE av.userVersion

VersionBranches ==
    detected =>
        \A k \in 1..Len(jsonData) : \A j \in 1..Len(jsonData[k].assistant) :
            LET av  == jsonData[k].assistant[j]
                msg == AssistantMessageAt(k, j)
            IN  /\ (av.version = <<0>> /\ av.type = "normal") =>
                       (msg.branch_id = "main" /\ msg.branch_level = 0)
                /\ (av.version[1] > 0 \/ av.type \in {"retry", "edit"}) =>
                       (msg.branch_id # "main" /\ msg.branch_level >= 1)
                /\ \A i \in 1..Len(jsonData[k].human) :
                       jsonData[k].human[i].version = Answers(av) =>
                           msg.parent_uuid = HumanMessageAt(k, i).uuid

\* turn 0 has human version 0, assistant version 0 (normal) and assistant
\* version 1 (retry) answering human version 0, and the dispatcher has run
VersionBranchesWitness ==
    /\ detected
    /\ Len(jsonData) >= 1
    /\ Len(jsonData[1].human) >= 1
    /\ jsonData[1].assistant =
           <<Version(0, "normal", <<>>), Version(1, "retry", <<0>>)>>
    /\ AssistantMessageAt(1, 2).parent_uuid = HumanMessageAt(1, 1).uuid
    /\ AssistantMessageAt(1, 1).parent_uuid = HumanMessageAt(1, 1).uuid

-----------------------------------------------------------------------------
(* C21  Variants make a branch point.  As claimed: every emitted node whose     *)
(* entry carries more than one variant has is_branch_point = TRUE on its first  *)
(* message, whatever the sender of the entry and whatever the number of its     *)
(* children.                                                                    *)

ManyVariantNodes == {i \in 1..Len(nodeMap) : Len(nodeMap[i].entry.swipes) > 1}

VariantsTaggedAnySender ==
    returned =>
        \A v \in {i \in ManyVariantNodes : Emitted(nodeMap[i].fingerprint)} :
            chatHistory[FirstMessageOf(nodeMap[v].fingerprint)].is_branch_point

(* C21 as amended: every emitted node whose entry is not from the user and      *)
(* carries more than one variant has is_branch_point = TRUE on its first-listed *)
(* variant message and on no other variant message, whatever the number of its  *)
(* children; a user entry is never expanded and is tagged by fan-out alone.     *)

VariantsTaggedReplies ==
    returned =>
        /\ \A v \in {i \in VariantNodes : Emitted(nodeMap[i].fingerprint)} :
               LET f == FirstMessageOf(nodeMap[v].fingerprint)
               IN  /\ chatHistory[f].is_branch_point
                   /\ chatHistory[f].swipe_info[1].swipeIndex = 0
                   /\ \A k \in MessagesOf(nodeMap[v].fingerprint) \ {f} :
                          ~chatHistory[k].is_branch_point
        /\ \A u \in {i \in ManyVariantNodes \ VariantNodes :
                         Emitted(nodeMap[i].fingerprint)} :
               chatHistory[FirstMessageOf(nodeMap[u].fingerprint)].is_branch_point
                   = (Len(nodeMap[u].children) > 1)

\* replies with variants were emitted with no child and with one child, and a
\* user entry with variants was emitted too
VariantsTaggedWitness ==
    /\ returned
    /\ \E v \in VariantNodes :
           Emitted(nodeMap[v].fingerprint) /\ nodeMap[v].children = <<>>
    /\ \E v \in VariantNodes :
           Emitted(nodeMap[v].fingerprint) /\ Len(nodeMap[v].children) = 1
    /\ \E u \in ManyVariantNodes \ VariantNodes : Emitted(nodeMap[u].fingerprint)

-----------------------------------------------------------------------------
(* C22  Human side of the multi-version adapter.  Every human version of turn 0 *)
(* has the reserved root sentinel as parent_uuid; every human version of a turn *)
(* t > 0 has the uuid of the last-listed assistant version of turn t-1, or the  *)
(* uuid form of assistant version 0 of turn t-1 when that turn has no assistant *)
(* versions; so all human versions of a turn share one parent_uuid.             *)

HumanParents ==
    processedData # NoData =>
        \A k \in 1..Len(jsonData) : \A i \in 1..Len(jsonData[k].human) :
            LET msg == HumanMessageAt(k, i)
            IN  /\ msg.sender = "human"
                /\ k = 1 => msg.parent_uuid = ROOT_UUID
                /\ k > 1 =>
                       IF Len(jsonData[k - 1].assistant) > 0
                       THEN msg.parent_uuid =
                                AssistantMessageAt(k - 1, Len(jsonData[k - 1].assistant)).uuid
                       ELSE msg.parent_uuid =
                                "assistant_" \o NatToString(jsonData[k].turnIndex - 1) \o "_v0"
                /\ msg.parent_uuid = HumanMessageAt(k, 1).parent_uuid

\* the second turn has two human versions and follows a turn whose two assistant
\* versions have different uuids
HumanParentsWitness ==
    /\ processedData # NoData
    /\ Len(jsonData) = 2
    /\ Len(jsonData[2].human) = 2
    /\ Len(jsonData[1].assistant) = 2
    /\ AssistantMessageAt(1, 1).uuid # AssistantMessageAt(1, 2).uuid
    /\ HumanMessageAt(2, 2).parent_uuid = AssistantMessageAt(1, 2).uuid

-----------------------------------------------------------------------------
(* C23  Dispatcher heuristic.  After detectOtherBranches on a multi-version     *)
(* sequence every message with version 0 and type normal is tagged "main" at    *)
(* level 0; every other message is tagged branch_v<version>_uv<answered human   *)
(* version> (never "main") at level = its version number when that is > 0 and   *)
(* 1 otherwise; so the level is 0 exactly for the messages on "main".           *)

DispatcherHeuristic ==
    detected =>
        \A k \in 1..Len(processedData.chat_history) :
            LET msg      == processedData.chat_history[k]
                ver      == msg._version[1]
                answered == IF msg._user_version = <<>> THEN 0 ELSE msg._user_version[1]
            IN  /\ (ver = 0 /\ msg._version_type = "normal") =>
                       (msg.branch_id = "main" /\ msg.branch_level = 0)
                /\ (ver > 0 \/ msg._version_type # "normal") =>
                       /\ msg.branch_id = "branch_v" \o NatToString(ver) \o "_uv"
                                              \o NatToString(answered)
                       /\ msg.branch_id # "main"
                       /\ msg.branch_level = (IF ver > 0 THEN ver ELSE 1)
                /\ (msg.branch_level = 0) = (msg.branch_id = "main")

\* the dispatcher has tagged a retry numbered 0, a version numbered 1 that
\* answers human version 1, and an edited human version
DispatcherHeuristicWitness ==
    /\ detected
    /\ \E k \in 1..Len(processedData.chat_history) :
           LET msg == processedData.chat_history[k]
           IN  msg._version = <<0>> /\ msg._version_type = "retry" /\ msg.branch_level = 1
    /\ \E k \in 1..Len(processedData.chat_history) :
           processedData.chat_history[k].branch_id = "branch_v1_uv1"
    /\ \E k \in 1..Len(processedData.chat_history) :
           LET msg == processedData.chat_history[k]
           IN  msg.sender = "human" /\ msg._version_type = "edit"

-----------------------------------------------------------------------------
(* C24  Dispatcher on a merged chat log.  detectOtherBranches leaves branch_id  *)
(* and branch_level of every message that has a branch_id unchanged, sets       *)
(* "main" and 0 on every message without one, changes no other field, keeps     *)
(* the messages and their order, and changes nothing when applied again.        *)

Untaggable(msg) == msg.branch_id \in {Undefined, ""}

DispatcherFrame ==
    [][(~detected /\ detected' /\ processedData.format = "jsonl_chat") =>
          LET old == processedData.chat_history
              new == processedData'.chat_history
          IN  /\ processedData'.format = "jsonl_chat"
              /\ Len(new) = Len(old)
              /\ \A k \in 1..Len(old) :
                     IF Untaggable(old[k])
                     THEN new[k] = [old[k] EXCEPT !.branch_id = "main",
                                                  !.branch_level = 0]
                     ELSE new[k] = old[k]
              /\ detectOtherBranches(processedData') = processedData'
    ]_vars

\* the dispatcher has returned a log in which a variant that the merger had put
\* on branch_1 is now on main at level 0, next to messages still on their branch
DispatcherFrameWitness ==
    /\ detected
    /\ processedData.format = "jsonl_chat"
    /\ \E k \in 1..Len(processedData.chat_history) :
           LET msg == processedData.chat_history[k]
           IN  /\ msg.uuid = "jsonl_branch_1_2_0"
               /\ msg.branch_id = "main"
               /\ msg.branch_level = 0
    /\ \E k \in 1..Len(processedData.chat_history) :
           LET msg == processedData.chat_history[k]
           IN  msg.branch_id \notin {"main", "branch_1"} /\ msg.branch_level >= 1

-----------------------------------------------------------------------------
(* C25  Graph well-formedness.  After any sequence of addFile calls the parent  *)
(* and child edges are mutually inverse, every fingerprint in a parents or      *)
(* children set is a key of the node map, the true roots are exactly the nodes  *)
(* with an empty parents set, and every true root is a file-root candidate.     *)

GraphWellFormed ==
    /\ \A i \in 1..Len(nodeMap), j \in 1..Len(nodeMap) :
           (nodeMap[j].fingerprint \in Range(nodeMap[i].children))
               = (nodeMap[i].fingerprint \in Range(nodeMap[j].parents))
    /\ \A i \in 1..Len(nodeMap) :
           /\ Range(nodeMap[i].parents) \subseteq Keys(nodeMap)
           /\ Range(nodeMap[i].children) \subseteq Keys(nodeMap)
    /\ Range(findTrueRoots(nodeMap)) =
           {nodeMap[i].fingerprint : i \in {i \in 1..Len(nodeMap) : nodeMap[i].parents = <<>>}}
    /\ Range(findTrueRoots(nodeMap)) \subseteq Range(rootFingerprints)

\* a graph with a node of two parents, a node of two children, a node that is
\* its own child and a true root
GraphWellFormedWitness ==
    /\ \E i \in 1..Len(nodeMap) : Len(nodeMap[i].parents) >= 2
    /\ \E i \in 1..Len(nodeMap) : Len(nodeMap[i].children) >= 2
    /\ \E i \in 1..Len(nodeMap) :
           nodeMap[i].fingerprint \in Range(nodeMap[i].children)
    /\ findTrueRoots(nodeMap) # <<>>

-----------------------------------------------------------------------------
(* C26  Lineage.  Provided the selected index of every reply with variants is   *)
(* within range, in every returned history the parent_uuid of a message is      *)
(* either empty, and then the message comes from a true root, or the uuid of a  *)
(* message that occurs earlier in the history with a smaller index; no          *)
(* parent_uuid names a missing or a later message.                              *)

SelectionsInRange ==
    \A v \in VariantNodes :
        RecordedSelection(nodeMap[v].entry) \in 0..(Len(nodeMap[v].entry.swipes) - 1)

LineageWellFormed ==
    (returned /\ SelectionsInRange) =>
        \A k \in Positions :
            IF chatHistory[k].parent_uuid = ""
            THEN origin[k].via = Null /\ origin[k].fp \in Range(trueRoots)
            ELSE /\ origin[k].via # Null
                 /\ \E j \in 1..(k - 1) :
                        /\ chatHistory[j].uuid = chatHistory[k].parent_uuid
                        /\ chatHistory[j].index < chatHistory[k].index
                        /\ origin[j].fp = origin[k].via

\* a history with two roots in which a reply with three variants, the second
\* one selected, has children
LineageWellFormedWitness ==
    /\ returned
    /\ SelectionsInRange
    /\ Len(trueRoots) >= 2
    /\ \E v \in VariantNodes :
           /\ Len(nodeMap[v].entry.swipes) = 3
           /\ nodeMap[v].entry.swipe_id = <<1>>
           /\ \E k \in Positions : origin[k].via = nodeMap[v].fingerprint

-----------------------------------------------------------------------------
(* C27  Termination.  On every graph addFile can build, with self-loops and     *)
(* cycles, a call of generateChatHistory returns: every traverse call that is   *)
(* pending eventually returns, no fingerprint is processed twice, and the       *)
(* calls never nest deeper than the number of nodes.                            *)

TraversalTerminates ==
    /\ [](\A i \in 1..Len(visitOrder), j \in 1..Len(visitOrder) :
              visitOrder[i] = visitOrder[j] => i = j)
    /\ [](Len(stack) <= Len(nodeMap) + 1)
    /\ ((stack # <<>>) ~> (stack = <<>> /\ calls >= 1))

\* a traversal has returned after processing a message that follows itself and
\* two messages that follow each other
TraversalTerminatesWitness ==
    /\ stack = <<>>
    /\ calls >= 1
    /\ Len(visitOrder) >= 3
    /\ \E i \in 1..Len(nodeMap) :
           /\ nodeMap[i].fingerprint \in Range(visitOrder)
           /\ nodeMap[i].fingerprint \in Range(nodeMap[i].children)
    /\ \E i \in 1..Len(nodeMap), j \in 1..Len(nodeMap) :
           /\ i # j
           /\ {nodeMap[i].fingerprint, nodeMap[j].fingerprint} \subseteq Range(visitOrder)
           /\ nodeMap[j].fingerprint \in Range(nodeMap[i].children)
           /\ nodeMap[i].fingerprint \in Range(nodeMap[j].children)

-----------------------------------------------------------------------------
(* C28  Tagged forks.  Every message emitted without variant expansion that     *)
(* has is_branch_point = TRUE is the parent_uuid of at least two emitted        *)
(* messages.                                                                    *)

PlainMessages == {k \in Positions : chatHistory[k].swipe_info = <<>>}

TaggedForksContinueTwice ==
    returned =>
        \A k \in PlainMessages :
            chatHistory[k].is_branch_point =>
                Cardinality(ChildrenOfUuid(chatHistory[k].uuid)) >= 2

-----------------------------------------------------------------------------
(* C29  One selected variant.  For every node expanded into variant siblings,   *)
(* whatever selected index its entry records, exactly one of the siblings has   *)
(* isSelected = TRUE in its swipe_info, and the uuid of that sibling is the     *)
(* parent_uuid of the messages emitted as children of the node.                 *)

SelectedSiblings(fp) == {k \in MessagesOf(fp) : chatHistory[k].swipe_info[1].isSelected}

OneSelectedVariant ==
    returned =>
        \A v \in {i \in VariantNodes : Emitted(nodeMap[i].fingerprint)} :
            LET fp == nodeMap[v].fingerprint
            IN  /\ Cardinality(SelectedSiblings(fp)) = 1
                /\ \A k \in Positions : \A sel \in SelectedSiblings(fp) :
                       origin[k].via = fp =>
                           chatHistory[k].parent_uuid = chatHistory[sel].uuid

-----------------------------------------------------------------------------
(* C30  Completeness on acyclic graphs.  When no fingerprint of the node map is *)
(* its own descendant along child edges, the history holds messages of every    *)
(* node: one for a node expanded without variants, n for a node expanded into   *)
(* n > 1 variants, and its length is the sum of these counts.                   *)

\* the fingerprints reached from the set S in at most n steps along child edges
RECURSIVE Reach(_, _, _)
Reach(nm, S, n) ==
    IF n = 0 THEN S
    ELSE Reach(nm, S \cup UNION {Range(Get(nm, fp).children) : fp \in S}, n - 1)

Descendants(nm, fp) == Reach(nm, Range(Get(nm, fp).children), Len(nm))

Acyclic(nm) == \A i \in 1..Len(nm) : nm[i].fingerprint \notin Descendants(nm, nm[i].fingerprint)

RECURSIVE SumCounts(_, _)
SumCounts(nm, i) == IF i > Len(nm) THEN 0 ELSE EmitCount(nm[i]) + SumCounts(nm, i + 1)

Completeness ==
    (returned /\ Acyclic(nodeMap)) =>
        /\ \A i \in 1..Len(nodeMap) :
               Cardinality(MessagesOf(nodeMap[i].fingerprint)) = EmitCount(nodeMap[i])
        /\ Len(chatHistory) = SumCounts(nodeMap, 1)

\* an acyclic graph with two roots, a fork and a node expanded into variants
CompletenessWitness ==
    /\ returned
    /\ Acyclic(nodeMap)
    /\ Len(nodeMap) >= 4
    /\ Len(findTrueRoots(nodeMap)) >= 2
    /\ \E i \in 1..Len(nodeMap) : Len(nodeMap[i].children) > 1
    /\ \E i \in 1..Len(nodeMap) : EmitCount(nodeMap[i]) > 1
    /\ Len(chatHistory) = SumCounts(nodeMap, 1)

====
